---- MODULE Spec2Model ----
(***************************************************************************)
(* The k6 suite runners of this repository: run-all-tests.js (summary-read *)
(* extraction, HTML report) and its sibling runner (text-scan extraction,  *)
(* HTML report and CSV export).  A runner walks the configured scenario    *)
(* list, invokes the engine once per scenario with execSync, appends one   *)
(* result per scenario, then emits the reports and prints the tally.       *)
(*                                                                         *)
(* JavaScript values are tagged records of one shape, [t, n, s]: t is the  *)
(* JavaScript type, n the value of a number in thousandths, s the text of  *)
(* a string.  An exception is an explicit outcome: an operator that can    *)
(* throw returns a record with a field threw.                              *)
(*                                                                         *)
(* Environment assumption: writeFileSync, mkdirSync and console.log        *)
(* succeed.  The engine (k6) is the only collaborator whose outcome is     *)
(* left open: it exits normally or execSync throws.                        *)
(***************************************************************************)
EXTENDS Integers, Sequences, FiniteSets, TLC

(***************************************************************************)
(* Bounds of the explored inputs.                                          *)
(***************************************************************************)
\* largest count / duration (in whole units) the engine reports
MaxCount == 2

\* most lines of a console text handed to the text-scan extractor alone
MaxLines == 2

\* most duration samples in an event-stream file
MaxSamples == 10

\* most base-1024 digits of a byte count handed to formatBytes alone
MaxLimbs == 5

\* most results in a list handed to exportToCSV alone
MaxRows == 2

(***************************************************************************)
(* JavaScript scalars.                                                     *)
(***************************************************************************)
Undef == [t |-> "undefined", n |-> 0, s |-> ""]
Null == [t |-> "null", n |-> 0, s |-> ""]
NaN == [t |-> "nan", n |-> 0, s |-> ""]
Num(k) == [t |-> "number", n |-> k, s |-> ""]
Str(x) == [t |-> "string", n |-> 0, s |-> x]

\* a whole number m as a JavaScript number
Whole(m) == Num(m * 1000)

\* ToBoolean
Truthy(v) ==
    CASE v.t = "undefined" -> FALSE
      [] v.t = "null" -> FALSE
      [] v.t = "nan" -> FALSE
      [] v.t = "number" -> v.n # 0
      [] v.t = "string" -> v.s # ""
      [] OTHER -> TRUE

\* v || 0
OrZero(v) == IF Truthy(v) THEN v ELSE Num(0)

\* ToNumber of a scalar; a non-numeric string is NaN, "" and null are 0
ToNumber(v) ==
    CASE v.t = "number" -> v
      [] v.t = "null" -> Num(0)
      [] v.t = "string" -> IF v.s = "" THEN Num(0) ELSE NaN
      [] OTHER -> NaN

Digit == <<"0", "1", "2", "3", "4", "5", "6", "7", "8", "9">>

RECURSIVE NatToStr(_)
NatToStr(k) == IF k < 10 THEN Digit[k + 1] ELSE NatToStr(k \div 10) \o Digit[(k % 10) + 1]

\* two decimal digits
Pad2(k) == Digit[(k \div 10) + 1] \o Digit[(k % 10) + 1]

\* k thousandths rounded to hundredths, half away from zero
RoundTo(k, unit) ==
    IF k >= 0 THEN (k + unit \div 2) \div unit ELSE -((-k + unit \div 2) \div unit)

\* Number.prototype.toFixed(2) applied to a number value
FixedText(k) ==
    LET h == RoundTo(k, 10)
        a == IF h < 0 THEN -h ELSE h
    IN (IF h < 0 THEN "-" ELSE "") \o NatToStr(a \div 100) \o "." \o Pad2(a % 100)

\* v.toFixed(2): a method of numbers only, a TypeError on any other value
ToFixed2(v) ==
    CASE v.t = "number" -> [threw |-> FALSE, v |-> Str(FixedText(v.n))]
      [] v.t = "nan" -> [threw |-> FALSE, v |-> Str("NaN")]
      [] OTHER -> [threw |-> TRUE, v |-> Undef]

\* Math.round: the nearest integer, a half rounds up
MathRound(v) ==
    LET x == ToNumber(v)
    IN IF x.t = "nan" THEN NaN ELSE Num(1000 * ((x.n + 500) \div 1000))

\* v * 100
Times100(v) ==
    LET x == ToNumber(v)
    IN IF x.t = "nan" THEN NaN ELSE Num(x.n * 100)

\* a + b on numbers
Plus(a, b) ==
    IF a.t = "number" /\ b.t = "number" THEN Num(a.n + b.n) ELSE NaN

(***************************************************************************)
(* formatBytes (run-all-tests.js).                                         *)
(***************************************************************************)
sizes == <<"B", "KB", "MB", "GB">>

RECURSIVE Pow1024(_)
Pow1024(i) == IF i = 0 THEN 1 ELSE 1024 * Pow1024(i - 1)

\* Math.floor(Math.log(bytes) / Math.log(k)) for bytes >= 1 (k thousandths)
RECURSIVE FloorLog1024(_)
FloorLog1024(k) == IF k < 1024 * 1000 THEN 0 ELSE 1 + FloorLog1024(k \div 1024)

\* the same for 0 < bytes < 1
RECURSIVE FloorLog1024Frac(_)
FloorLog1024Frac(k) == IF k >= 1000 THEN 0 ELSE FloorLog1024Frac(k * 1024) - 1

\* parseFloat(x.toFixed(2)) printed: h hundredths without trailing zeros
ShortText(h) ==
    NatToStr(h \div 100) \o
    (IF h % 100 = 0 THEN ""
     ELSE IF h % 10 = 0 THEN "." \o Digit[((h % 100) \div 10) + 1]
     ELSE "." \o Pad2(h % 100))

formatBytes(bytes) ==
    IF bytes.t = "number" /\ bytes.n = 0 THEN Str("0 B")
    ELSE IF bytes.t = "number" /\ bytes.n > 0
    THEN LET i == IF bytes.n >= 1000 THEN FloorLog1024(bytes.n)
                  ELSE FloorLog1024Frac(bytes.n)
             h == IF i >= 0 THEN RoundTo(bytes.n, 10 * Pow1024(i))
                  ELSE RoundTo(bytes.n * Pow1024(-i), 10)
         IN Str(ShortText(h) \o " " \o
                (IF i \in 1 .. Len(sizes) - 1 \/ i = 0 THEN sizes[i + 1] ELSE "undefined"))
    ELSE Str("NaN undefined")

(***************************************************************************)
(* formatBytes on whole byte counts of any size.  A count is given by its  *)
(* base-1024 digits, most significant first (<<1, 512>> is 1536), so that   *)
(* counts of a GB and more stay within the range of the integers here.     *)
(***************************************************************************)
\* Math.floor(Math.log(bytes) / Math.log(k)): the number of digits after the
\* first; in double precision the quotient of the logarithms reaches the next
\* integer when the first five digits are all 1023 (bytes within 2^-50 of
\* the next power of 1024)
FloorLogDigits(ds) ==
    IF Len(ds) >= 5 /\ \A j \in 1 .. 5 : ds[j] = 1023 THEN Len(ds) ELSE Len(ds) - 1

\* floor(100 * f), f the fraction whose base-1024 digits are ds
RECURSIVE Frac100(_)
Frac100(ds) == IF ds = <<>> THEN 0 ELSE (100 * Head(ds) + Frac100(Tail(ds))) \div 1024

\* (bytes / Math.pow(k, i)).toFixed(2), in hundredths: ds is the quotient with
\* one digit before the point
Hundredths(ds) ==
    IF Len(ds) = 1 THEN 100 * ds[1]
    ELSE 100 * ds[1] + (100 * ds[2] + 512 + Frac100(Tail(Tail(ds)))) \div 1024

formatBytesOf(ds) ==
    IF ds = <<0>> THEN Str("0 B")
    ELSE LET i == FloorLogDigits(ds)
             h == Hundredths(IF i = Len(ds) - 1 THEN ds ELSE <<0>> \o ds)
         IN Str(ShortText(h) \o " " \o
                (IF i + 1 \in DOMAIN sizes THEN sizes[i + 1] ELSE "undefined"))

(***************************************************************************)
(* The structured summary document (--summary-export) after JSON.parse:    *)
(* summary.metrics[name].values[key].  Every level may be absent or of the *)
(* wrong type.                                                             *)
(***************************************************************************)
MetricNames == {"http_reqs", "http_req_duration", "http_req_failed", "iterations",
                "checks", "vus_max", "data_received", "data_sent"}
ValueKeys == {"count", "avg", "min", "max", "med", "p(95)", "rate", "passes", "fails"}

NoKeys == [k \in ValueKeys |-> Undef]
\* a `values` member: absent, or an object, or a (truthy) string
NoValues == [t |-> "undefined", v |-> NoKeys]
TextValues == [t |-> "string", v |-> NoKeys]
ObjValues(f) == [t |-> "object", v |-> f]
\* a metric entry: absent, or an object with a `values` member
NoEntry == [t |-> "undefined", values |-> NoValues]
Entry(vals) == [t |-> "object", values |-> vals]
NoEntries == [m \in MetricNames |-> NoEntry]
\* the document: null or undefined, or an object whose `metrics` is absent,
\* null, a (truthy) string, or an object
NullSummary == [t |-> "null", metrics |-> [t |-> "undefined", m |-> NoEntries]]
UndefSummary == [t |-> "undefined", metrics |-> [t |-> "undefined", m |-> NoEntries]]
NoMetricsSummary == [t |-> "object", metrics |-> [t |-> "undefined", m |-> NoEntries]]
NullMetricsSummary == [t |-> "object", metrics |-> [t |-> "null", m |-> NoEntries]]
TextMetricsSummary == [t |-> "object", metrics |-> [t |-> "string", m |-> NoEntries]]
Summary(entries) == [t |-> "object", metrics |-> [t |-> "object", m |-> entries]]

\* if (summary && summary.metrics)
HasMetrics(summary) == summary.t = "object" /\ summary.metrics.t \in {"object", "string"}

\* summary.metrics.<name>?.values
ValuesOf(summary, name) ==
    LET e == summary.metrics.m[name]
    IN IF e.t = "object" THEN e.values ELSE NoValues

\* values.<key>, also values?.<key>
Prop(values, key) == IF values.t = "object" THEN values.v[key] ELSE Undef

\* if (values)
HasValues(values) == values.t \in {"object", "string"}

(***************************************************************************)
(* MetricsSnapshot: the object both extractors build.                      *)
(***************************************************************************)
DefaultMetrics ==
    [http_reqs |-> Num(0),
     http_req_duration |-> [avg |-> Num(0), min |-> Num(0), max |-> Num(0),
                            p95 |-> Num(0), med |-> Num(0)],
     http_req_failed |-> Num(0),
     http_req_failed_rate |-> Num(0),
     iterations |-> Num(0),
     checks |-> [total |-> Num(0), passed |-> Num(0), failed |-> Num(0), rate |-> Num(0)],
     vus_max |-> Num(0),
     data_received |-> Str("0 B"),
     data_sent |-> Str("0 B")]

(***************************************************************************)
(* extractMetricsFromSummary (run-all-tests.js).  Each Step is one `if`    *)
(* block of the try body, in the order of the source; a step that throws   *)
(* leaves the fields assigned so far and skips the rest of the body.       *)
(***************************************************************************)
DurSrc == <<"avg", "min", "max", "med", "p(95)">>
DurDst == <<"avg", "min", "max", "med", "p95">>

\* metrics.http_req_duration.<x> = (dur.<x> || 0).toFixed(2), five times
RECURSIVE SetDuration(_, _, _)
SetDuration(d, dur, k) ==
    IF k > Len(DurSrc) THEN [threw |-> FALSE, d |-> d]
    ELSE LET r == ToFixed2(OrZero(Prop(dur, DurSrc[k])))
         IN IF r.threw THEN [threw |-> TRUE, d |-> d]
            ELSE SetDuration([d EXCEPT ![DurDst[k]] = r.v], dur, k + 1)

StepHttpReqs(summary, m) ==
    LET c == Prop(ValuesOf(summary, "http_reqs"), "count")
    IN IF c.t # "undefined" THEN [m EXCEPT !.http_reqs = MathRound(c)] ELSE m

StepDuration(summary, m) ==
    LET dur == ValuesOf(summary, "http_req_duration")
    IN IF HasValues(dur)
       THEN LET r == SetDuration(m.http_req_duration, dur, 1)
            IN [threw |-> r.threw, m |-> [m EXCEPT !.http_req_duration = r.d]]
       ELSE [threw |-> FALSE, m |-> m]

StepFailed(summary, m) ==
    LET failData == ValuesOf(summary, "http_req_failed")
    IN IF HasValues(failData)
       THEN [m EXCEPT !.http_req_failed = MathRound(OrZero(Prop(failData, "passes"))),
                      !.http_req_failed_rate =
                          ToFixed2(Times100(OrZero(Prop(failData, "rate")))).v]
       ELSE m

StepIterations(summary, m) ==
    LET c == Prop(ValuesOf(summary, "iterations"), "count")
    IN IF c.t # "undefined" THEN [m EXCEPT !.iterations = MathRound(c)] ELSE m

StepChecks(summary, m) ==
    LET checksData == ValuesOf(summary, "checks")
    IN IF HasValues(checksData)
       THEN LET passed == MathRound(OrZero(Prop(checksData, "passes")))
                failed == MathRound(OrZero(Prop(checksData, "fails")))
            IN [m EXCEPT !.checks =
                   [total |-> Plus(passed, failed), passed |-> passed, failed |-> failed,
                    rate |-> ToFixed2(Times100(OrZero(Prop(checksData, "rate")))).v]]
       ELSE m

StepVus(summary, m) ==
    LET c == Prop(ValuesOf(summary, "vus_max"), "max")
    IN IF c.t # "undefined" THEN [m EXCEPT !.vus_max = MathRound(c)] ELSE m

StepData(summary, m) ==
    LET r == Prop(ValuesOf(summary, "data_received"), "count")
        t == Prop(ValuesOf(summary, "data_sent"), "count")
        m1 == IF r.t # "undefined" THEN [m EXCEPT !.data_received = formatBytes(r)] ELSE m
    IN IF t.t # "undefined" THEN [m1 EXCEPT !.data_sent = formatBytes(t)] ELSE m1

\* the try body: [threw, m], m the metrics object when the body ends or throws
SummaryTryBody(summary) ==
    IF ~HasMetrics(summary)
    THEN [threw |-> FALSE, m |-> DefaultMetrics]
    ELSE LET d == StepDuration(summary, StepHttpReqs(summary, DefaultMetrics))
         IN IF d.threw THEN d
            ELSE [threw |-> FALSE,
                  m |-> StepData(summary, StepVus(summary, StepChecks(summary,
                            StepIterations(summary, StepFailed(summary, d.m)))))]

\* the catch block: Object.keys(summary?.metrics || {}).join(', ');
\* Object.keys throws a TypeError on null and undefined
SummaryCatchThrows(summary) ==
    LET arg == IF HasMetrics(summary) THEN summary.metrics.t ELSE "object"
    IN arg \in {"null", "undefined"}

\* the function without its try/catch: the TypeError of toFixed leaves it
extractMetricsFromSummary_NoCatch(summary) ==
    LET r == SummaryTryBody(summary) IN [threw |-> r.threw, v |-> r.m]
\* try { body } catch (error) { log } return metrics
extractMetricsFromSummary(summary) ==
    LET r == SummaryTryBody(summary)
    IN [threw |-> r.threw /\ SummaryCatchThrows(summary), v |-> r.m]

(***************************************************************************)
(* The captured console text of the engine, line by line.  A line is       *)
(* "<label>: <value>"; label is the text before the colon, kws the set of   *)
(* metric keywords that occur in it, kind the form of the value:           *)
(*   count   "120 1.2/s"            percent "95.00% ..."                   *)
(*   trend   "avg=.. min=.. med=.. max=.. p(95)=.."                        *)
(*   gauge   "3 min=3 max=3"        size    "1.2 MB 20 kB/s"               *)
(*   of      "95 of 100"            text    anything else                  *)
(* n is the leading number of the value, in thousandths.                   *)
(***************************************************************************)
\* the keywords the patterns of the extractor look for
RuleKeywords == {"http_reqs", "iterations", "checks", "http_req_duration", "http_req_failed",
                 "vus_max", "data_received", "data_sent"}
\* the label of a custom counter, and the text before the first colon of the
\* scenario banner "* default: 1 iterations for each of 1 VUs (maxDuration: 30s, ..."
CustomLabel == "failed_http_reqs"
BannerLabel == "1 iterations for each of 1 VUs (maxDuration"
\* kw occurs in label, as a substring
Contains(label, kw) ==
    \/ label = kw
    \/ label = CustomLabel /\ kw = "http_reqs"
    \/ label = BannerLabel /\ kw = "iterations"
Keywords(label) == {kw \in RuleKeywords : Contains(label, kw)}

Line(label, kind, n) ==
    [label |-> label, kws |-> Keywords(label), kind |-> kind, n |-> n, avg |-> 0, min |-> 0,
     med |-> 0, max |-> 0, p95 |-> 0, m |-> 0, size |-> ""]
CountLine(label, c) == [Line(label, "count", c * 1000) EXCEPT !.size = NatToStr(c)]
PercentLine(label, k) == Line(label, "percent", k)
TrendLine(label, avg, min, med, max, p95) ==
    [Line(label, "trend", 0) EXCEPT !.avg = avg, !.min = min, !.med = med, !.max = max,
                                    !.p95 = p95]
GaugeLine(label, c, min, max) ==
    [Line(label, "gauge", c * 1000) EXCEPT !.min = min, !.max = max, !.size = NatToStr(c)]
SizeLine(label, k, text) == [Line(label, "size", k) EXCEPT !.size = text]
OfLine(label, c, m) == [Line(label, "of", c * 1000) EXCEPT !.m = m * 1000, !.size = NatToStr(c)]
TextLine(label) == Line(label, "text", 0)

\* the value starts with [\d,]+
StartsWithDigits(l) == l.kind \in {"count", "percent", "gauge", "size", "of"}

\* String.prototype.match without the g flag: the first place of the text
\* where the pattern matches; 0 when there is none
FirstMatch(lines, P(_)) ==
    IF \E i \in 1 .. Len(lines) : P(lines[i])
    THEN CHOOSE i \in 1 .. Len(lines) : P(lines[i]) /\ \A j \in 1 .. i - 1 : ~P(lines[j])
    ELSE 0

\* /<kw>[^:]*:\s*([\d,]+)/, then parseInt(capture.replace(/,/g, '')) || 0
MatchInt(lines, kw) ==
    LET P(l) == kw \in l.kws /\ StartsWithDigits(l)
        i == FirstMatch(lines, P)
    IN [found |-> i # 0, v |-> IF i # 0 THEN Whole(lines[i].n \div 1000) ELSE Num(0)]

\* /<kw>[^:]*:\s*([\d.]+)%/, then parseFloat(capture) || 0
MatchPercent(lines, kw) ==
    LET P(l) == kw \in l.kws /\ l.kind = "percent"
        i == FirstMatch(lines, P)
    IN [found |-> i # 0, v |-> IF i # 0 THEN Num(lines[i].n) ELSE Num(0)]

\* /http_req_duration[^:]*:\s*avg=([\d.]+)/
MatchAvg(lines) ==
    LET P(l) == "http_req_duration" \in l.kws /\ l.kind = "trend"
        i == FirstMatch(lines, P)
    IN [found |-> i # 0, v |-> IF i # 0 THEN Num(lines[i].avg) ELSE Num(0)]

\* /min=([\d.]+)/, /max=.../, /med=.../, /p\(95\)=.../: no label in the pattern
MatchField(lines, f) ==
    LET P(l) == IF f \in {"min", "max"} THEN l.kind \in {"trend", "gauge"}
                ELSE l.kind = "trend"
        i == FirstMatch(lines, P)
    IN [found |-> i # 0, v |-> IF i # 0 THEN Num(lines[i][f]) ELSE Num(0)]

\* /<kw>[^:]*:\s*([\d.]+\s*\w+)/, then capture.trim()
MatchSize(lines, kw) ==
    LET P(l) == kw \in l.kws /\ StartsWithDigits(l) /\ l.size # ""
        i == FirstMatch(lines, P)
    IN [found |-> i # 0, v |-> IF i # 0 THEN Str(lines[i].size) ELSE Str("")]

\* /checks[^:]*:\s*([\d,]+)\s*of/ and /checks[^:]*:\s*[\d,]+\s*of\s*([\d,]+)/
MatchOf(lines) ==
    LET P(l) == "checks" \in l.kws /\ l.kind = "of"
        i == FirstMatch(lines, P)
    IN [found |-> i # 0,
        passed |-> IF i # 0 THEN Whole(lines[i].n \div 1000) ELSE Num(0),
        total |-> IF i # 0 THEN Whole(lines[i].m \div 1000) ELSE Num(0)]

\* the evidence handed to the text-scan extractor: a string, or no string
Text(lines) == [t |-> "string", lines |-> lines]
NoText(t) == [t |-> t, lines |-> <<>>]

(***************************************************************************)
(* parseMetricsFromOutput (text-scan runner).                              *)
(***************************************************************************)
\* the pattern rules of the try body, each `const m = output.match(...)`
\* followed by `if (m) metrics.<field> = ...`
TextFields(ls) ==
         LET reqs == MatchInt(ls, "http_reqs")
             iter == MatchInt(ls, "iterations")
             rate == MatchPercent(ls, "checks")
             avg == MatchAvg(ls)
             min == MatchField(ls, "min")
             max == MatchField(ls, "max")
             med == MatchField(ls, "med")
             p95 == MatchField(ls, "p95")
             frate == MatchPercent(ls, "http_req_failed")
             fcount == MatchInt(ls, "http_req_failed")
             vus == MatchInt(ls, "vus_max")
             recv == MatchSize(ls, "data_received")
             sent == MatchSize(ls, "data_sent")
             of == MatchOf(ls)
             d == DefaultMetrics
             chk == IF of.found
                    THEN [total |-> of.total, passed |-> of.passed,
                          failed |-> Num(of.total.n - of.passed.n),
                          rate |-> IF rate.found THEN rate.v ELSE Num(0)]
                    ELSE [d.checks EXCEPT !.rate = IF rate.found THEN rate.v ELSE Num(0)]
         IN [http_reqs |-> IF reqs.found THEN reqs.v ELSE d.http_reqs,
             http_req_duration |->
                 [avg |-> IF avg.found THEN avg.v ELSE Num(0),
                  min |-> IF min.found THEN min.v ELSE Num(0),
                  max |-> IF max.found THEN max.v ELSE Num(0),
                  p95 |-> IF p95.found THEN p95.v ELSE Num(0),
                  med |-> IF med.found THEN med.v ELSE Num(0)],
             http_req_failed |-> IF fcount.found THEN fcount.v ELSE d.http_req_failed,
             http_req_failed_rate |->
                 IF frate.found THEN frate.v ELSE d.http_req_failed_rate,
             iterations |-> IF iter.found THEN iter.v ELSE d.iterations,
             checks |-> chk,
             vus_max |-> IF vus.found THEN vus.v ELSE d.vus_max,
             data_received |-> IF recv.found THEN recv.v ELSE d.data_received,
             data_sent |-> IF sent.found THEN sent.v ELSE d.data_sent]

\* a try body that gives up at the first pattern without a match
TextTryBody_StopAtMiss(output) ==
    IF output.t # "string" THEN [threw |-> TRUE, m |-> DefaultMetrics]
    ELSE [threw |-> FALSE,
          m |-> IF MatchInt(output.lines, "http_reqs").found
                THEN TextFields(output.lines) ELSE DefaultMetrics]
\* the try body; output.split throws a TypeError when output is no string
TextTryBody(output) ==
    IF output.t # "string" THEN [threw |-> TRUE, m |-> DefaultMetrics]
    ELSE [threw |-> FALSE, m |-> TextFields(output.lines)]

\* the function with output.split outside its try/catch
parseMetricsFromOutput_NoCatch(output) ==
    LET r == TextTryBody(output) IN [threw |-> r.threw, v |-> r.m]
\* try { body } catch (error) { console.log } return metrics
parseMetricsFromOutput(output) ==
    LET r == TextTryBody(output) IN [threw |-> FALSE, v |-> r.m]

(***************************************************************************)
(* The scenario lists (`tests`) of the two runners and what the engine     *)
(* can leave behind for one scenario.                                      *)
(***************************************************************************)
TestsSummary == <<"Login Test", "Create User Test", "List Users Test">>
TestsText == <<"Login Test", "Create User Test", "List Users Test",
               "Ban and Unban Users Test", "Set Role Test", "Edit Users Test">>
Tests(r) == IF r = "summary" THEN TestsSummary ELSE TestsText
NumTests(r) == Len(Tests(r))

\* a well-formed summary document
GoodEntries ==
    [m \in MetricNames |->
        CASE m = "http_reqs" -> Entry(ObjValues([NoKeys EXCEPT !["count"] = Whole(120)]))
          [] m = "http_req_duration" ->
                Entry(ObjValues([NoKeys EXCEPT !["avg"] = Num(120456), !["min"] = Num(80000),
                                               !["max"] = Num(300000), !["med"] = Num(110000),
                                               !["p(95)"] = Num(250125)]))
          [] m = "http_req_failed" ->
                Entry(ObjValues([NoKeys EXCEPT !["passes"] = Whole(0), !["fails"] = Whole(120),
                                               !["rate"] = Num(0)]))
          [] m = "iterations" -> Entry(ObjValues([NoKeys EXCEPT !["count"] = Whole(60)]))
          [] m = "checks" ->
                Entry(ObjValues([NoKeys EXCEPT !["passes"] = Whole(95), !["fails"] = Whole(5),
                                               !["rate"] = Num(950)]))
          [] m = "vus_max" -> Entry(ObjValues([NoKeys EXCEPT !["max"] = Whole(3)]))
          [] m = "data_received" ->
                Entry(ObjValues([NoKeys EXCEPT !["count"] = Whole(1536)]))
          [] OTHER -> Entry(ObjValues([NoKeys EXCEPT !["count"] = Whole(1048576)]))]
GoodSummary == Summary(GoodEntries)
\* the same with a non-numeric http_req_duration.avg
BadAvgSummary ==
    Summary([GoodEntries EXCEPT !["http_req_duration"].values.v["avg"] = Str("abc")])

DocIds == {"null", "nometrics", "good", "badavg"}
DocOf(id) ==
    CASE id = "null" -> NullSummary
      [] id = "nometrics" -> NoMetricsSummary
      [] id = "good" -> GoodSummary
      [] OTHER -> BadAvgSummary

\* the end-of-test summary k6 prints, metric lines in alphabetical order
ReportLines ==
    <<PercentLine("checks", 95000),
      SizeLine("data_received", 1200, "1.2 MB"),
      SizeLine("data_sent", 340000, "340 kB"),
      TrendLine("http_req_blocked", 1000, 0, 1000, 9000, 5000),
      TrendLine("http_req_duration", 120500, 80000, 110000, 300000, 250000),
      PercentLine("http_req_failed", 0),
      CountLine("http_reqs", 120),
      TrendLine("iteration_duration", 1100000, 1000000, 1100000, 1300000, 1200000),
      CountLine("iterations", 60),
      GaugeLine("vus", 3, 3000, 3000),
      GaugeLine("vus_max", 3, 3000, 3000)>>
\* the scenario banner: "1 iterations for each of 1 VUs (maxDuration: 30s, ..."
BannerLine == CountLine(BannerLabel, 30)

TextIds == {"empty", "banner", "report"}
TextOf(id) ==
    CASE id = "empty" -> Text(<<>>)
      [] id = "banner" -> Text(<<BannerLine>>)
      [] OTHER -> Text(<<BannerLine>> \o ReportLines)

\* what one engine run leaves: the summary file (absent, not JSON, or a
\* document) and the text written to stdout
Evidence == [file : {"missing", "malformed", "json"}, doc : DocIds, output : TextIds]
EvidenceOf(r) ==
    IF r = "summary"
    THEN {e \in Evidence : e.output = "empty" /\ (e.file # "json" => e.doc = "null")}
    ELSE {e \in Evidence : e.file = "missing" /\ e.doc = "null"}

\* error.message of the error execSync throws
ErrorMessages == {"Command failed: k6 run"}

(***************************************************************************)
(* One iteration of tests.forEach, after execSync has returned or thrown.  *)
(***************************************************************************)
NoMetrics == [t |-> "undefined", v |-> DefaultMetrics]
NullMetrics == [t |-> "null", v |-> DefaultMetrics]
Metrics(m) == [t |-> "object", v |-> m]

\* the object literal pushed in the try block
PassedResult(name, metrics) ==
    [name |-> name, status |-> "PASSED", metrics |-> metrics, error |-> Undef]
\* the object literal pushed in the catch block
FailedResult(name, message) ==
    [name |-> name, status |-> "FAILED", metrics |-> NoMetrics, error |-> Str(message)]

\* results.unshift(r) in the place of results.push(r)
Push_Unshift(list, r) == <<r>> \o list
\* results.push(r)
Push(list, r) == Append(list, r)

(***************************************************************************)
(* The event-stream reduction of duration samples.  No file of src reads   *)
(* the event-stream file; the reduction is the one the specification       *)
(* describes: the samples of a metric sorted ascending, then avg (mean),   *)
(* min (first), max (last) and p95 (the value at index floor(n * 0.95)).   *)
(* Samples are whole milliseconds; avg is in thousandths, cut off.         *)
(***************************************************************************)
RECURSIVE Insert(_, _)
Insert(sorted, x) ==
    IF sorted = <<>> THEN <<x>>
    ELSE IF x <= Head(sorted) THEN <<x>> \o sorted
    ELSE <<Head(sorted)>> \o Insert(Tail(sorted), x)
RECURSIVE SortAsc(_)
SortAsc(samples) ==
    IF samples = <<>> THEN <<>> ELSE Insert(SortAsc(Tail(samples)), Head(samples))
RECURSIVE SumSeq(_)
SumSeq(samples) == IF samples = <<>> THEN 0 ELSE Head(samples) + SumSeq(Tail(samples))
ReduceTrend(samples) ==
    LET sorted == SortAsc(samples)
        n == Len(samples)
    IN IF n = 0 THEN [avg |-> 0, min |-> 0, max |-> 0, p95 |-> 0]
       ELSE [avg |-> (1000 * SumSeq(samples)) \div n,
             min |-> sorted[1],
             max |-> sorted[n],
             p95 |-> sorted[((n * 95) \div 100) + 1]]

\* a summary read that takes the duration figures from the samples of the
\* event-stream file
ReadSummary_FromStream(e) ==
    LET r == ReduceTrend(e.raw)
    IN [threw |-> FALSE,
        v |-> Metrics([DefaultMetrics EXCEPT !.http_req_duration =
                          [avg |-> Num(r.avg), min |-> Whole(r.min), max |-> Whole(r.max),
                           p95 |-> Whole(r.p95), med |-> Num(0)]])]
\* the summary read without its inner try/catch: the SyntaxError of JSON.parse
\* reaches the catch block of the iteration
ReadSummary_NoCatch(e) ==
    IF e.file = "missing" THEN [threw |-> FALSE, v |-> NullMetrics]
    ELSE IF e.file = "malformed" THEN [threw |-> TRUE, v |-> NullMetrics]
    ELSE LET r == extractMetricsFromSummary(DocOf(e.doc))
         IN [threw |-> r.threw, v |-> Metrics(r.v)]
\* the summary read leaving metrics null also for a document without metrics
ReadSummary_NullDefaults(e) ==
    IF e.file # "json" \/ ~HasMetrics(DocOf(e.doc)) THEN [threw |-> FALSE, v |-> NullMetrics]
    ELSE [threw |-> FALSE, v |-> Metrics(extractMetricsFromSummary(DocOf(e.doc)).v)]
\* run-all-tests.js: let metrics = null; if (existsSync) { try { parse,
\* extract } catch (parseError) { log } } else { log }
ReadSummary(e) ==
    IF e.file = "missing" THEN [threw |-> FALSE, v |-> NullMetrics]
    ELSE IF e.file = "malformed" THEN [threw |-> FALSE, v |-> NullMetrics]
    ELSE LET r == extractMetricsFromSummary(DocOf(e.doc))
         IN [threw |-> FALSE, v |-> IF r.threw THEN NullMetrics ELSE Metrics(r.v)]

\* text-scan runner: const metrics = parseMetricsFromOutput(output, test.name)
ReadOutput(e) ==
    LET r == parseMetricsFromOutput(TextOf(e.output))
    IN [threw |-> r.threw, v |-> Metrics(r.v)]

\* the try block with the summary read moved after results.push and out of its
\* inner try/catch: a SyntaxError after the push reaches the catch block
TryRest_ParseAfterPush(r, list, name, e) ==
    LET got == IF r = "summary" THEN ReadSummary_NoCatch(e) ELSE ReadOutput(e)
        pushed == Push(list, PassedResult(name, got.v))
    IN IF got.threw THEN Push(pushed, FailedResult(name, "SyntaxError")) ELSE pushed
\* the rest of the try block once execSync has returned; an exception in it
\* reaches the catch block of the iteration
TryRest(r, list, name, e) ==
    LET got == IF r = "summary" THEN ReadSummary(e) ELSE ReadOutput(e)
    IN IF got.threw THEN Push(list, FailedResult(name, "TypeError"))
       ELSE Push(list, PassedResult(name, got.v))

\* a catch block that writes the failure over the newest entry
CatchBlock_Overwrite(list, name, message) ==
    IF list = <<>> THEN <<FailedResult(name, message)>>
    ELSE [list EXCEPT ![Len(list)] = FailedResult(name, message)]
\* the catch block of the iteration
CatchBlock(list, name, message) == Push(list, FailedResult(name, message))

(***************************************************************************)
(* State.                                                                  *)
(***************************************************************************)
VARIABLES
    runner,       \* "summary": run-all-tests.js; "text": the text-scan runner
    pc,           \* position of the script
    index,        \* number of iterations of tests.forEach that have ended
    inFlight,     \* scenarios whose engine process is running
    invocations,  \* per scenario, the number of execSync calls made for it
    engine,       \* per ended invocation, how the engine exited and what it left
    results,      \* the `results` array
    emissions,    \* the calls of generateHTMLReport / exportToCSV, with their argument
    tally,        \* the printed "Summary:" block, once printed
    call,         \* an extractor applied on its own: the function and its argument
    ret           \* and what it returned

vars == <<runner, pc, index, inFlight, invocations, engine, results, emissions, tally,
          call, ret>>

NoCall == [fn |-> "none", summary |-> NullSummary, output |-> NoText("null")]
NoRet == [done |-> FALSE, threw |-> FALSE, v |-> DefaultMetrics]

Init ==
    /\ runner \in {"summary", "text"}
    /\ pc = "loop"
    /\ index = 0
    /\ inFlight = {}
    /\ invocations = [i \in 1 .. NumTests(runner) |-> 0]
    /\ engine = <<>>
    /\ results = <<>>
    /\ emissions = <<>>
    /\ tally = <<>>
    /\ call = NoCall
    /\ ret = NoRet

(***************************************************************************)
(* tests.forEach: one scenario at a time.                                  *)
(***************************************************************************)
\* the iteration with a call that does not block (exec for execSync): the
\* next iteration starts while the engine runs
StartScenario_NoWait ==
    LET started == index + Cardinality(inFlight)
    IN /\ pc \in {"loop", "exec"}
       /\ started < NumTests(runner)
       /\ pc' = "exec"
       /\ inFlight' = inFlight \cup {started + 1}
       /\ invocations' = [invocations EXCEPT ![started + 1] = @ + 1]
       /\ UNCHANGED <<runner, index, engine, results, emissions, tally, call, ret>>
\* the iteration starts and calls execSync(command), which blocks
StartScenario ==
    /\ pc = "loop"
    /\ index < NumTests(runner)
    /\ pc' = "exec"
    /\ inFlight' = inFlight \cup {index + 1}
    /\ invocations' = [invocations EXCEPT ![index + 1] = @ + 1]
    /\ UNCHANGED <<runner, index, engine, results, emissions, tally, call, ret>>

\* the engine exits with status 0: execSync returns, the try block goes on
ExecReturns ==
    /\ pc = "exec"
    /\ \E e \in EvidenceOf(runner) :
          /\ results' = TryRest(runner, results, Tests(runner)[index + 1], e)
          /\ engine' = Append(engine, [exit |-> "ok", evidence |-> e])
    /\ inFlight' = inFlight \ {index + 1}
    /\ index' = index + 1
    /\ pc' = "loop"
    /\ UNCHANGED <<runner, invocations, emissions, tally, call, ret>>

\* a catch block that records the failure and rethrows: the suite stops
ExecThrows_Abort ==
    /\ pc = "exec"
    /\ \E e \in EvidenceOf(runner), msg \in ErrorMessages :
          /\ results' = CatchBlock(results, Tests(runner)[index + 1], msg)
          /\ engine' = Append(engine, [exit |-> "fail", evidence |-> e])
    /\ inFlight' = inFlight \ {index + 1}
    /\ index' = index + 1
    /\ pc' = "crashed"
    /\ UNCHANGED <<runner, invocations, emissions, tally, call, ret>>
\* a catch block that runs the scenario again instead of recording the failure
ExecThrows_Retry ==
    /\ pc = "exec"
    /\ invocations[index + 1] < 2
    /\ inFlight' = inFlight \ {index + 1}
    /\ pc' = "loop"
    /\ UNCHANGED <<runner, index, invocations, engine, results, emissions, tally, call, ret>>
\* the engine exits non-zero or cannot be run: execSync throws
ExecThrows ==
    /\ pc = "exec"
    /\ \E e \in EvidenceOf(runner), msg \in ErrorMessages :
          /\ results' = CatchBlock(results, Tests(runner)[index + 1], msg)
          /\ engine' = Append(engine, [exit |-> "fail", evidence |-> e])
    /\ inFlight' = inFlight \ {index + 1}
    /\ index' = index + 1
    /\ pc' = "loop"
    /\ UNCHANGED <<runner, invocations, emissions, tally, call, ret>>

(***************************************************************************)
(* The epilogue of the script.                                             *)
(***************************************************************************)
\* the template of the text-scan runner reads test.metrics.iterations of every
\* PASSED result; run-all-tests.js tests `test.metrics` first
HtmlThrows(r, list) ==
    /\ r = "text"
    /\ \E k \in 1 .. Len(list) : list[k].status = "PASSED" /\ list[k].metrics.t # "object"

\* results.map(test => `...${test.metrics.iterations}...`) reads the metrics
\* of every result
CsvThrows(list) == \E k \in 1 .. Len(list) : list[k].metrics.t # "object"

\* results.filter(r => r.status === status).length
Count(list, status) == Cardinality({k \in 1 .. Len(list) : list[k].status = status})

\* x.toFixed(1) of a number of t tenths
Fixed1Text(t) == NatToStr(t \div 10) \o "." \o Digit[(t % 10) + 1]
\* the success rate cut off to one decimal
successRate_CutOff(list) ==
    IF Len(list) = 0 THEN "NaN"
    ELSE Fixed1Text((1000 * Count(list, "PASSED")) \div Len(list))
\* ((passedTests / totalTests) * 100).toFixed(1); 0 / 0 is NaN
successRate(list) ==
    IF Len(list) = 0 THEN "NaN"
    ELSE Fixed1Text((2000 * Count(list, "PASSED") + Len(list)) \div (2 * Len(list)))

\* the overall metrics of the report of the text-scan runner: the forEach
\* over results with `if (test.metrics)`
NoOverall ==
    [totalRequests |-> Num(0), totalIterations |-> Num(0), avgResponseTime |-> Num(0),
     testCount |-> 0]
RECURSIVE OverallFrom(_, _)
OverallFrom(list, acc) ==
    IF list = <<>> THEN acc
    ELSE LET test == Head(list)
         IN OverallFrom(Tail(list),
                IF test.metrics.t = "object"
                THEN [totalRequests |-> Plus(acc.totalRequests, test.metrics.v.http_reqs),
                      totalIterations |-> Plus(acc.totalIterations, test.metrics.v.iterations),
                      avgResponseTime |->
                          Plus(acc.avgResponseTime,
                               ToNumber(test.metrics.v.http_req_duration.avg)),
                      testCount |-> acc.testCount + 1]
                ELSE acc)
\* a / c for a number a and a count c > 0
Over(a, c) == IF a.t = "number" THEN Num(a.n \div c) ELSE NaN
\* the mean taken over all results
Overall_OverAllResults(list) ==
    LET acc == OverallFrom(list, NoOverall)
    IN [acc EXCEPT !.avgResponseTime =
                       IF Len(list) > 0 THEN ToFixed2(Over(acc.avgResponseTime, Len(list))).v
                       ELSE Num(0)]
\* the mean without the test of testCount: (0 / 0).toFixed(2) is "NaN"
Overall_NoGuard(list) ==
    LET acc == OverallFrom(list, NoOverall)
    IN [acc EXCEPT !.avgResponseTime =
                       IF acc.testCount > 0
                       THEN ToFixed2(Over(acc.avgResponseTime, acc.testCount)).v
                       ELSE Str("NaN")]
\* avgResponseTime = testCount > 0 ? (avgResponseTime / testCount).toFixed(2) : 0
Overall(list) ==
    LET acc == OverallFrom(list, NoOverall)
    IN [acc EXCEPT !.avgResponseTime =
                       IF acc.testCount > 0
                       THEN ToFixed2(Over(acc.avgResponseTime, acc.testCount)).v
                       ELSE Num(0)]

\* what new Date().toLocaleString() returns at successive seconds of the wall
\* clock
ClockTexts == <<"1/1/2024, 10:00:00 AM", "1/1/2024, 10:00:01 AM">>
Clock == {ClockTexts[i] : i \in 1 .. Len(ClockTexts)}

\* the text under the report title: new Date(timestamp).toLocaleString() of a
\* label whose colons and dots were replaced is "Invalid Date" in the summary
\* runner; the text runner prints the label
TimestampLabel == "2024-01-01T00-00-00-000Z"
TitleText(r) == IF r = "summary" THEN "Invalid Date" ELSE TimestampLabel

\* the grid condition without the test of test.metrics, in both runners
HasGrid_StatusOnly(r, test) == test.status = "PASSED"
\* the metrics grid of a block: test.status === 'PASSED' && test.metrics in the
\* summary runner, test.status === 'PASSED' in the text runner
HasGrid(r, test) ==
    /\ test.status = "PASSED"
    /\ r = "summary" => test.metrics.t = "object"
\* the summary runner's note for a PASSED result without metrics
HasNote(r, test) ==
    /\ r = "summary"
    /\ test.status = "PASSED"
    /\ test.metrics.t # "object"
\* an error panel with a fixed text in the place of the message
ErrorPanel_FixedText(test) == IF Truthy(test.error) THEN Str("Test failed") ELSE Undef
\* ${test.error ? `<div class="error...">...${test.error}</div>` : ''}
ErrorPanel(test) == IF Truthy(test.error) THEN test.error ELSE Undef

\* one element of results.map(test => `<div class="test-result">...`)
HtmlBlock(r, test) ==
    [title |-> test.name,
     badge |-> test.status,
     grid |-> HasGrid(r, test),
     cells |-> IF HasGrid(r, test) THEN test.metrics.v ELSE DefaultMetrics,
     note |-> HasNote(r, test),
     panel |-> ErrorPanel(test)]
RECURSIVE HtmlBlocks(_, _)
HtmlBlocks(r, list) ==
    IF list = <<>> THEN <<>>
    ELSE <<HtmlBlock(r, Head(list))>> \o HtmlBlocks(r, Tail(list))

\* what generateHTMLReport is given, what it shows in the summary card and, in
\* the text-scan runner, in the overall performance block, and the document it
\* writes when the clock
\* reads now; nothing is written when the template throws
HtmlEmission(r, list, now) ==
    [emitter |-> "html", input |-> list, threw |-> HtmlThrows(r, list),
     successRate |-> successRate(list),
     overall |-> IF r = "text" THEN Overall(list) ELSE NoOverall, rows |-> 0,
     title |-> TitleText(r),
     generated |-> IF HtmlThrows(r, list) THEN "" ELSE now,
     blocks |-> IF HtmlThrows(r, list) THEN <<>> ELSE HtmlBlocks(r, list),
     footer |-> IF HtmlThrows(r, list) THEN "" ELSE now]
\* what exportToCSV is given and the data rows of the file it writes; no file
\* is written when the map callback throws
CsvEmission(list) ==
    [emitter |-> "csv", input |-> list, threw |-> CsvThrows(list),
     successRate |-> "", overall |-> NoOverall,
     rows |-> IF CsvThrows(list) THEN 0 ELSE Len(list),
     title |-> "", generated |-> "", blocks |-> <<>>, footer |-> ""]

\* generateHTMLReport called at the end of every iteration
GenerateHTML_InLoop ==
    /\ pc = "loop"
    /\ index >= 1
    /\ Len(emissions) < index
    /\ \E now \in Clock : emissions' = Append(emissions, HtmlEmission(runner, results, now))
    /\ pc' = IF index < NumTests(runner) THEN "loop"
             ELSE IF runner = "text" THEN "csv" ELSE "tally"
    /\ UNCHANGED <<runner, index, inFlight, invocations, engine, results, tally, call, ret>>
\* an emitter that puts the newest result first with results.reverse(), which
\* reorders the array in place
GenerateHTML_ReversesInput ==
    /\ pc = "loop"
    /\ index = NumTests(runner)
    /\ results' = [k \in 1 .. Len(results) |-> results[Len(results) + 1 - k]]
    /\ \E now \in Clock : emissions' = Append(emissions, HtmlEmission(runner, results', now))
    /\ pc' = IF HtmlThrows(runner, results) THEN "crashed"
             ELSE IF runner = "text" THEN "csv" ELSE "tally"
    /\ UNCHANGED <<runner, index, inFlight, invocations, engine, tally, call, ret>>
\* generateHTMLReport(results, timestamp), after the last iteration
GenerateHTML ==
    /\ pc = "loop"
    /\ index = NumTests(runner)
    /\ \E now \in Clock : emissions' = Append(emissions, HtmlEmission(runner, results, now))
    /\ pc' = IF HtmlThrows(runner, results) THEN "crashed"
             ELSE IF runner = "text" THEN "csv" ELSE "tally"
    /\ UNCHANGED <<runner, index, inFlight, invocations, engine, results, tally, call, ret>>

\* exportToCSV(results, timestamp): the text-scan runner only
ExportCSV ==
    /\ pc = "csv"
    /\ emissions' = Append(emissions, CsvEmission(results))
    /\ pc' = IF CsvThrows(results) THEN "crashed" ELSE "tally"
    /\ UNCHANGED <<runner, index, inFlight, invocations, engine, results, tally, call, ret>>

\* the console summary: Total Tests / Passed / Failed / Success Rate
PrintTally ==
    /\ pc = "tally"
    /\ tally' = <<[total |-> Len(results), passed |-> Count(results, "PASSED"),
                   failed |-> Count(results, "FAILED"), successRate |-> successRate(results)]>>
    /\ pc' = "done"
    /\ UNCHANGED <<runner, index, inFlight, invocations, engine, results, emissions,
                   call, ret>>

Next == StartScenario \/ ExecReturns \/ ExecThrows \/ GenerateHTML \/ ExportCSV \/ PrintTally

Spec == Init /\ [][Next]_vars

(***************************************************************************)
(* An extractor applied on its own, to every kind of evidence.             *)
(***************************************************************************)
ScalarInputs ==
    {Undef, Null, Str(""), Str("abc"), Num(1500), Num(950), Num(1234)}
        \cup {Whole(c) : c \in 0 .. MaxCount}
EntryInputs ==
    {NoEntry, Entry(NoValues), Entry(TextValues)}
        \cup {Entry(ObjValues([k \in ValueKeys |-> x])) : x \in ScalarInputs}
\* http_req_duration entries with one sub-value of any kind among good ones
DurationInputs ==
    EntryInputs \cup
    {Entry(ObjValues([k \in ValueKeys |-> IF k = bad THEN x ELSE Whole(1)])) :
        bad \in {"avg", "min", "max", "med", "p(95)"}, x \in ScalarInputs}
SummaryInputs ==
    {NullSummary, UndefSummary, NoMetricsSummary, NullMetricsSummary, TextMetricsSummary,
     GoodSummary, BadAvgSummary}
        \cup {Summary([m \in MetricNames |-> IF m = "http_req_duration" THEN d ELSE o]) :
                d \in DurationInputs, o \in EntryInputs}

LinePool ==
    {CountLine(kw, c) : kw \in {"http_reqs", "iterations"}, c \in 0 .. MaxCount}
        \cup {PercentLine("checks", 95000), PercentLine("http_req_failed", 1500),
              TrendLine("http_req_blocked", 1000, 0, 1000, 9000, 5000),
              TrendLine("http_req_duration", 120500, 80000, 110000, 300000, 250000),
              GaugeLine("vus_max", 3, 3000, 3000), OfLine("checks", 1, 2),
              CountLine(CustomLabel, 7), BannerLine,
              SizeLine("data_received", 1200, "1.2 MB"), TextLine("http_reqs")}
RECURSIVE TextsUpTo(_)
TextsUpTo(k) ==
    IF k = 0 THEN {<<>>}
    ELSE LET shorter == TextsUpTo(k - 1)
         IN shorter \cup {Append(ls, l) : ls \in shorter, l \in LinePool}
TextInputs ==
    {NoText("null"), NoText("undefined")} \cup {Text(ls) : ls \in TextsUpTo(MaxLines)}

InitExtract ==
    /\ runner = "summary"
    /\ pc = "extract"
    /\ index = 0
    /\ inFlight = {}
    /\ invocations = [i \in 1 .. NumTests(runner) |-> 0]
    /\ engine = <<>>
    /\ results = <<>>
    /\ emissions = <<>>
    /\ tally = <<>>
    /\ call \in {[fn |-> "summary", summary |-> d, output |-> NoText("null")] :
                    d \in SummaryInputs}
               \cup {[fn |-> "text", summary |-> NullSummary, output |-> o] :
                        o \in TextInputs}
    /\ ret = NoRet

CallSummary ==
    /\ pc = "extract"
    /\ call.fn = "summary"
    /\ ~ret.done
    /\ ret' = [done |-> TRUE, threw |-> extractMetricsFromSummary(call.summary).threw,
               v |-> extractMetricsFromSummary(call.summary).v]
    /\ UNCHANGED <<runner, pc, index, inFlight, invocations, engine, results, emissions,
                   tally, call>>

CallText ==
    /\ pc = "extract"
    /\ call.fn = "text"
    /\ ~ret.done
    /\ ret' = [done |-> TRUE, threw |-> parseMetricsFromOutput(call.output).threw,
               v |-> parseMetricsFromOutput(call.output).v]
    /\ UNCHANGED <<runner, pc, index, inFlight, invocations, engine, results, emissions,
                   tally, call>>

NextExtract == CallSummary \/ CallText

SpecExtract == InitExtract /\ [][NextExtract]_vars

(***************************************************************************)
(* formatBytes applied on its own to whole byte counts.                    *)
(***************************************************************************)
DigitPool == {0, 1, 2, 512, 1023}
RECURSIVE DigitsUpTo(_)
DigitsUpTo(k) ==
    IF k = 1 THEN {<<d>> : d \in DigitPool \ {0}}
    ELSE LET shorter == DigitsUpTo(k - 1)
         IN shorter \cup {Append(ds, d) : ds \in shorter, d \in DigitPool}
ByteInputs == {<<0>>} \cup DigitsUpTo(MaxLimbs)

InitBytes ==
    /\ runner = "summary"
    /\ pc = "bytes"
    /\ index = 0
    /\ inFlight = {}
    /\ invocations = [i \in 1 .. NumTests(runner) |-> 0]
    /\ engine = <<>>
    /\ results = <<>>
    /\ emissions = <<>>
    /\ tally = <<>>
    /\ call \in {[fn |-> "bytes", digits |-> ds] : ds \in ByteInputs}
    /\ ret = [done |-> FALSE, threw |-> FALSE, v |-> Undef]

CallBytes ==
    /\ pc = "bytes"
    /\ ~ret.done
    /\ ret' = [done |-> TRUE, threw |-> FALSE, v |-> formatBytesOf(call.digits)]
    /\ UNCHANGED <<runner, pc, index, inFlight, invocations, engine, results, emissions,
                   tally, call>>

NextBytes == CallBytes

SpecBytes == InitBytes /\ [][NextBytes]_vars

(***************************************************************************)
(* The evidence of one run of the summary-read runner, with the file the   *)
(* command asks for with --out json (`outputFile`): what the runner makes  *)
(* of it, next to what the event-stream reduction makes of its samples.    *)
(***************************************************************************)
\* the durations sampled, in ms: the shortest and the longest the engine reports
SampleValues == {1, MaxCount}
RECURSIVE SamplesUpTo(_)
SamplesUpTo(k) ==
    IF k = 0 THEN {<<>>}
    ELSE LET shorter == SamplesUpTo(k - 1)
         IN shorter \cup {Append(ss, x) : ss \in {t \in shorter : Len(t) = k - 1},
                                          x \in SampleValues}
StreamEvidence ==
    {[file |-> e.file, doc |-> e.doc, output |-> e.output, raw |-> ss] :
        e \in {x \in EvidenceOf("summary") : x.doc \in {"null", "good"}},
        ss \in SamplesUpTo(MaxSamples)}
NotReduced == [done |-> FALSE, avg |-> 0, min |-> 0, max |-> 0, p95 |-> 0]

InitStream ==
    /\ runner = "summary"
    /\ pc = "stream"
    /\ index = 0
    /\ inFlight = {}
    /\ invocations = [i \in 1 .. NumTests(runner) |-> 0]
    /\ engine = <<>>
    /\ results = <<>>
    /\ emissions = <<>>
    /\ tally = <<>>
    /\ call \in {[fn |-> "stream", e |-> e] : e \in StreamEvidence}
    /\ ret = [done |-> FALSE, threw |-> FALSE, v |-> NullMetrics, reduced |-> NotReduced]

\* the runner after execSync has returned: the summary read (outputFile is
\* named in the command and in no other statement)
StreamRunner ==
    /\ pc = "stream"
    /\ ~ret.done
    /\ ret' = [ret EXCEPT !.done = TRUE, !.v = ReadSummary(call.e).v]
    /\ UNCHANGED <<runner, pc, index, inFlight, invocations, engine, results, emissions,
                   tally, call>>

\* the event-stream reduction applied to the samples of the file
StreamReduce ==
    /\ pc = "stream"
    /\ ~ret.reduced.done
    /\ call.e.raw # <<>>
    /\ ret' = [ret EXCEPT !.reduced = [done |-> TRUE] @@ ReduceTrend(call.e.raw)]
    /\ UNCHANGED <<runner, pc, index, inFlight, invocations, engine, results, emissions,
                   tally, call>>

NextStream == StreamRunner \/ StreamReduce

SpecStream == InitStream /\ [][NextStream]_vars

(***************************************************************************)
(* exportToCSV (text-scan runner) applied on its own.  A text is a         *)
(* sequence of pieces: the separators "," and "\n", the double quote, and  *)
(* runs of other characters.                                                *)
(***************************************************************************)
Comma == ","
Quote == "\""
NewLine == "\n"

\* String(x) of a number of n thousandths, n >= 0
NumberText(n) ==
    NatToStr(n \div 1000) \o
    (IF n % 1000 = 0 THEN ""
     ELSE IF n % 100 = 0 THEN "." \o Digit[((n % 1000) \div 100) + 1]
     ELSE IF n % 10 = 0 THEN "." \o Pad2((n % 1000) \div 10)
     ELSE "." \o Digit[((n % 1000) \div 100) + 1] \o Pad2(n % 100))
\* `${v}` in a template literal
ToText(v) ==
    CASE v.t = "number" -> NumberText(v.n)
      [] v.t = "string" -> v.s
      [] v.t = "nan" -> "NaN"
      [] v.t = "null" -> "null"
      [] OTHER -> "undefined"

csvHeaders ==
    <<"Test Name", Comma, "Status", Comma, "Duration(s)", Comma, "Iterations", Comma,
      "HTTP Requests", Comma, "Avg Response Time(ms)", Comma, "P95 Response Time(ms)", Comma,
      "Success Rate(%)", Comma, "Fail Rate(%)", Comma, "Timestamp", NewLine>>

\* the template of one row; test.metrics is an object
csvRow(test) ==
    <<Quote>> \o test.name \o
    <<Quote, Comma, test.status, Comma, test.duration, Comma,
      ToText(test.metrics.v.iterations), Comma, ToText(test.metrics.v.http_reqs), Comma,
      ToText(test.metrics.v.http_req_duration.avg), Comma,
      ToText(test.metrics.v.http_req_duration.p95), Comma,
      ToText(test.metrics.v.checks.rate), Comma,
      ToText(test.metrics.v.http_req_failed_rate), Comma, test.timestamp>>
\* results.map(row).join('\n')
RECURSIVE csvRows(_)
csvRows(list) ==
    IF list = <<>> THEN <<>>
    ELSE IF Len(list) = 1 THEN csvRow(list[1])
    ELSE csvRow(Head(list)) \o <<NewLine>> \o csvRows(Tail(list))

\* exportToCSV: the content handed to writeFileSync, or the TypeError of
\* test.metrics.iterations on a result without metrics
exportToCSV(list) ==
    IF CsvThrows(list) THEN [threw |-> TRUE, text |-> <<>>]
    ELSE [threw |-> FALSE, text |-> csvHeaders \o csvRows(list)]

\* the results exportToCSV is given: scenario names (the ones of `tests`
\* have neither comma nor quote), the two statuses, and the duration and
\* timestamp texts the iteration sets
NamePool == {<<"Login Test">>, <<"Users", Comma, " list">>, <<"The ", Quote, "ban", Quote, " test">>}
CsvResult(name, status, metrics) ==
    [name |-> name, status |-> status, duration |-> "0.52", metrics |-> metrics,
     error |-> IF status = "FAILED" THEN Str("Command failed: k6 run") ELSE Undef,
     timestamp |-> "2024-01-01T00:00:00.000Z"]
CsvResultPool ==
    {CsvResult(name, "PASSED", Metrics(parseMetricsFromOutput(TextOf(id)).v)) :
        name \in NamePool, id \in {"empty", "report"}}
        \cup {CsvResult(name, "FAILED", NoMetrics) : name \in NamePool}
RECURSIVE ListsUpTo(_)
ListsUpTo(k) ==
    IF k = 0 THEN {<<>>}
    ELSE LET shorter == ListsUpTo(k - 1)
         IN shorter \cup {Append(l, r) : l \in shorter, r \in CsvResultPool}

InitCsv ==
    /\ runner = "text"
    /\ pc = "csv-alone"
    /\ index = 0
    /\ inFlight = {}
    /\ invocations = [i \in 1 .. NumTests(runner) |-> 0]
    /\ engine = <<>>
    /\ results \in ListsUpTo(MaxRows)
    /\ emissions = <<>>
    /\ tally = <<>>
    /\ call = [fn |-> "csv"]
    /\ ret = [done |-> FALSE, threw |-> FALSE, text |-> <<>>]

CallCsv ==
    /\ pc = "csv-alone"
    /\ ~ret.done
    /\ ret' = [done |-> TRUE, threw |-> exportToCSV(results).threw,
               text |-> exportToCSV(results).text]
    /\ UNCHANGED <<runner, pc, index, inFlight, invocations, engine, results, emissions,
                   tally, call>>

NextCsv == CallCsv

SpecCsv == InitCsv /\ [][NextCsv]_vars

(***************************************************************************)
(* generateHTMLReport applied on its own: the same `results` array and the  *)
(* same timestamp label are handed to it twice, the wall clock going on in  *)
(* between.                                                                 *)
(***************************************************************************)
\* the arrays the loop of runner r can have built after at most k iterations
RECURSIVE ResultsUpTo(_, _)
ResultsUpTo(r, k) ==
    IF k = 0 THEN {<<>>}
    ELSE LET shorter == ResultsUpTo(r, k - 1)
         IN shorter
              \cup {TryRest(r, l, Tests(r)[Len(l) + 1], e) : l \in shorter, e \in EvidenceOf(r)}
              \cup {CatchBlock(l, Tests(r)[Len(l) + 1], msg) : l \in shorter, msg \in ErrorMessages}

\* the clock readings from the one that gave text t on
ClockFrom(t) ==
    {ClockTexts[j] : j \in {i \in 1 .. Len(ClockTexts) :
                                \E h \in 1 .. i : ClockTexts[h] = t}}

InitHtml ==
    /\ runner \in {"summary", "text"}
    /\ pc = "html-alone"
    /\ index = 0
    /\ inFlight = {}
    /\ invocations = [i \in 1 .. NumTests(runner) |-> 0]
    /\ engine = <<>>
    /\ results \in ResultsUpTo(runner, MaxRows) \ {<<>>}
    /\ emissions = <<>>
    /\ tally = <<>>
    /\ call = [fn |-> "html"]
    /\ ret = NoRet

\* generateHTMLReport(results, timestamp), called a first and a second time
CallHtml ==
    /\ pc = "html-alone"
    /\ Len(emissions) < 2
    /\ \E now \in (IF emissions = <<>> THEN Clock ELSE ClockFrom(emissions[1].generated)) :
          emissions' = Append(emissions, HtmlEmission(runner, results, now))
    /\ UNCHANGED <<runner, pc, index, inFlight, invocations, engine, results, tally,
                   call, ret>>

NextHtml == CallHtml

SpecHtml == InitHtml /\ [][NextHtml]_vars

(***************************************************************************)
(* Properties of the run (specification Spec).                             *)
(***************************************************************************)
N == NumTests(runner)
Ended == pc \in {"done", "crashed"}
Emitted(kind) == Cardinality({k \in 1 .. Len(emissions) : emissions[k].emitter = kind})
Named(name) == Cardinality({k \in 1 .. Len(results) : results[k].name = name})

\* C1: when the engine invocation of scenario k fails, a FAILED result is
\* recorded for k and the suite goes on: the script is about to start
\* scenario k+1, or has invoked it.
C1_FailureDoesNotAbort ==
    \A k \in 1 .. Len(engine) :
        engine[k].exit = "fail" =>
            /\ k <= Len(results)
            /\ results[k].status = "FAILED"
            /\ results[k].name = Tests(runner)[k]
            /\ k < N => \/ pc = "loop" /\ index = k
                        \/ invocations[k + 1] >= 1
C1_Witness ==
    /\ Len(engine) = N
    /\ engine[1].exit = "fail"
    /\ \A i \in 1 .. N : invocations[i] = 1

\* C2: every ended scenario has contributed exactly one result, whatever the
\* exit of the engine and the state of the evidence; once the loop is over
\* the list has as many entries as there are scenarios.
C2_OneResultPerScenario ==
    /\ Len(results) = Len(engine)
    /\ \A i \in 1 .. N : Named(Tests(runner)[i]) = IF i <= Len(engine) THEN 1 ELSE 0
    /\ pc \notin {"loop", "exec"} => Len(results) = N
C2_Witness ==
    /\ runner = "summary"
    /\ pc = "done"
    /\ engine[1].exit = "fail"
    /\ engine[2].exit = "ok" /\ engine[2].evidence.file = "malformed"
    /\ engine[3].exit = "ok" /\ engine[3].evidence.file = "missing"
    /\ Len(results) = 3

\* C3: the k-th result is the result of the k-th configured scenario, at every
\* point of the run.
C3_ExecutionOrder ==
    /\ Len(results) <= N
    /\ \A k \in 1 .. Len(results) : results[k].name = Tests(runner)[k]
C3_Witness ==
    /\ runner = "text"
    /\ Len(results) = N
    /\ results[1].status = "FAILED"
    /\ results[N].status = "PASSED"

\* C4: whatever the outcomes of the scenarios, the script ends having called
\* every report emitter it has and having printed the tally.
C4_SuiteReachesTally ==
    Ended => /\ Emitted("html") = 1
             /\ runner = "text" => Emitted("csv") = 1
             /\ tally # <<>>

\* C5: the status of a result is decided by the exit of the engine alone:
\* PASSED when execSync returned, FAILED when it threw, whatever evidence
\* the run left.
C5_StatusFollowsExit ==
    /\ Len(results) = Len(engine)
    /\ \A k \in 1 .. Len(results) :
          results[k].status = IF engine[k].exit = "ok" THEN "PASSED" ELSE "FAILED"
C5_Witness ==
    /\ runner = "summary"
    /\ Len(results) = 3
    /\ engine[1].exit = "ok" /\ engine[1].evidence.file = "malformed"
    /\ engine[2].exit = "fail" /\ engine[2].evidence.file = "json"
        /\ engine[2].evidence.doc = "good"
    /\ engine[3].exit = "ok" /\ engine[3].evidence.doc = "badavg"

\* what the extractor of the runner makes of the evidence of one run
Extracted(r, e) ==
    IF r = "summary" THEN extractMetricsFromSummary(DocOf(e.doc)).v
    ELSE parseMetricsFromOutput(TextOf(e.output)).v

\* C6 as stated: a FAILED result has no metrics and an error message, a
\* PASSED result has a metrics snapshot and no error.
C6_TwoShapes ==
    \A k \in 1 .. Len(results) :
        /\ results[k].status = "FAILED" =>
              results[k].metrics.t \in {"undefined", "null"} /\ results[k].error.t = "string"
        /\ results[k].status = "PASSED" =>
              results[k].metrics.t = "object" /\ results[k].error.t \in {"undefined", "null"}

\* C6 amended: a FAILED result has no metrics and an error message; a PASSED
\* result has no error and the snapshot the extractor builds from the evidence,
\* except that run-all-tests.js records null metrics when the summary
\* file is missing or is not JSON.
C6_TwoShapesOrNull ==
    /\ Len(results) = Len(engine)
    /\ \A k \in 1 .. Len(results) :
          /\ results[k].status \in {"PASSED", "FAILED"}
          /\ results[k].status = "FAILED" =>
                results[k].metrics.t = "undefined" /\ results[k].error.t = "string"
          /\ results[k].status = "PASSED" =>
                /\ results[k].error.t = "undefined"
                /\ IF runner = "summary" /\ engine[k].evidence.file # "json"
                   THEN results[k].metrics.t = "null"
                   ELSE /\ results[k].metrics.t = "object"
                        /\ results[k].metrics.v = Extracted(runner, engine[k].evidence)
C6_Witness ==
    /\ runner = "summary"
    /\ Len(results) = 3
    /\ results[1].status = "PASSED" /\ results[1].metrics.t = "null"
    /\ results[2].status = "PASSED" /\ results[2].metrics.t = "object"
        /\ engine[2].evidence.doc = "nometrics"
    /\ results[3].status = "FAILED"

\* C7: at most one engine process runs at any time, and the process of
\* scenario i runs or has run only when the i-1 scenarios before it have
\* exited and have their results in the list.
C7_OneAtATime ==
    /\ Cardinality(inFlight) <= 1
    /\ \A i \in inFlight : Len(engine) = i - 1 /\ Len(results) = i - 1
    /\ \A i \in 2 .. N :
          invocations[i] > 0 => Len(results) >= i - 1 /\ (i - 1) \notin inFlight
C7_Witness ==
    /\ inFlight = {2}
    /\ Len(results) = 1

\* C8: no scenario is invoked twice and no emitter is called twice; when the
\* script ends, every scenario has been invoked exactly once (also one that
\* failed) and every emitter of the runner has been called exactly once.
C8_NoRetries ==
    /\ \A i \in 1 .. N : invocations[i] <= 1
    /\ \A i \in 1 .. Len(engine) : invocations[i] = 1
    /\ Emitted("html") <= 1 /\ Emitted("csv") <= 1
    /\ Ended => /\ \A i \in 1 .. N : invocations[i] = 1
                /\ Emitted("html") = 1
                /\ Emitted("csv") = IF runner = "text" THEN 1 ELSE 0
C8_Witness ==
    /\ runner = "text"
    /\ Ended
    /\ engine[2].exit = "fail"
    /\ Emitted("csv") = 1

\* C9: an emitter is called only when the result of the last scenario is in
\* the list, and the list it is given is the list as it stays: nothing is
\* appended once an emitter has been called.
C9_RenderAtEnd ==
    \A k \in 1 .. Len(emissions) :
        /\ Len(emissions[k].input) = N
        /\ emissions[k].input = results
        /\ index = N
        /\ inFlight = {}
C9_Witness ==
    /\ runner = "text"
    /\ pc = "done"
    /\ Len(emissions) = 2
    /\ emissions[1].input = results

(***************************************************************************)
(* Properties of the extractors (specification SpecExtract).               *)
(***************************************************************************)
\* the fields of a MetricsSnapshot
IsSnapshot(m) ==
    /\ DOMAIN m = DOMAIN DefaultMetrics
    /\ DOMAIN m.http_req_duration = DOMAIN DefaultMetrics.http_req_duration
    /\ DOMAIN m.checks = DOMAIN DefaultMetrics.checks

\* C10: extractMetricsFromSummary and parseMetricsFromOutput return a
\* snapshot for every input and no exception leaves them.
C10_ExtractorsTotal ==
    ret.done => ~ret.threw /\ IsSnapshot(ret.v)
C10_Witness ==
    /\ ret.done
    /\ call.fn = "summary"
    /\ SummaryTryBody(call.summary).threw
    /\ ret.v.http_reqs = Whole(1)

\* the document without its http_req_duration entry
WithoutDuration(summary) ==
    [summary EXCEPT !.metrics.m["http_req_duration"] = NoEntry]
\* a snapshot with the http_req_duration fields put back to their defaults
OtherFields(m) == [m EXCEPT !.http_req_duration = DefaultMetrics.http_req_duration]

\* every metric but http_req_duration is present with numeric sub-values
OthersWellFormed(summary) ==
    /\ summary.t = "object"
    /\ summary.metrics.t = "object"
    /\ \A name \in MetricNames \ {"http_req_duration"} :
          LET e == summary.metrics.m[name]
          IN /\ e.t = "object"
             /\ e.values.t = "object"
             /\ \A k \in ValueKeys : e.values.v[k].t = "number"

\* C11: when the other metrics of the summary document are present and
\* well-formed, they are extracted whatever the http_req_duration entry is:
\* the snapshot has, outside http_req_duration, the fields of the snapshot of
\* the same document without that entry.
C11_OtherMetricsExtracted ==
    (ret.done /\ call.fn = "summary" /\ OthersWellFormed(call.summary)) =>
        OtherFields(ret.v) =
            OtherFields(extractMetricsFromSummary(WithoutDuration(call.summary)).v)

\* the lines a pattern can match: kw in the label ("" for a pattern without
\* a label) and a value of one of the kinds, in the order of the text
Matching(ls, kw, kinds) ==
    SelectSeq(ls, LAMBDA l : (kw = "" \/ kw \in l.kws) /\ l.kind \in kinds)
DigitKinds == {"count", "percent", "gauge", "size", "of"}
\* the field has the capture of the first matching line, or keeps its default
RuleOutcome(ls, kw, kinds, got, dflt, Cap(_)) ==
    LET c == Matching(ls, kw, kinds)
    IN got = IF c = <<>> THEN dflt ELSE Cap(Head(c))

\* C12: each pattern rule of the text scan is applied on its own: a field
\* whose pattern matches somewhere in the text has the value captured at the
\* first match, and a field whose pattern matches nowhere keeps its default,
\* whatever the other patterns did.
C12_RulesIndependent ==
    (ret.done /\ call.fn = "text" /\ call.output.t = "string") =>
        LET ls == call.output.lines
            m == ret.v
            d == DefaultMetrics
            Digits(l) == Whole(l.n \div 1000)
            Val(l) == Num(l.n)
            Size(l) == Str(l.size)
        IN /\ RuleOutcome(ls, "http_reqs", DigitKinds, m.http_reqs, d.http_reqs, Digits)
           /\ RuleOutcome(ls, "iterations", DigitKinds, m.iterations, d.iterations, Digits)
           /\ RuleOutcome(ls, "checks", {"percent"}, m.checks.rate, d.checks.rate, Val)
           /\ RuleOutcome(ls, "http_req_duration", {"trend"}, m.http_req_duration.avg,
                          d.http_req_duration.avg, LAMBDA l : Num(l.avg))
           /\ RuleOutcome(ls, "", {"trend", "gauge"}, m.http_req_duration.min,
                          d.http_req_duration.min, LAMBDA l : Num(l.min))
           /\ RuleOutcome(ls, "", {"trend", "gauge"}, m.http_req_duration.max,
                          d.http_req_duration.max, LAMBDA l : Num(l.max))
           /\ RuleOutcome(ls, "", {"trend"}, m.http_req_duration.med,
                          d.http_req_duration.med, LAMBDA l : Num(l.med))
           /\ RuleOutcome(ls, "", {"trend"}, m.http_req_duration.p95,
                          d.http_req_duration.p95, LAMBDA l : Num(l.p95))
           /\ RuleOutcome(ls, "http_req_failed", {"percent"}, m.http_req_failed_rate,
                          d.http_req_failed_rate, Val)
           /\ RuleOutcome(ls, "http_req_failed", DigitKinds, m.http_req_failed,
                          d.http_req_failed, Digits)
           /\ RuleOutcome(ls, "vus_max", DigitKinds, m.vus_max, d.vus_max, Digits)
           /\ RuleOutcome(ls, "data_received", DigitKinds \ {"percent"}, m.data_received,
                          d.data_received, Size)
           /\ RuleOutcome(ls, "data_sent", DigitKinds \ {"percent"}, m.data_sent,
                          d.data_sent, Size)
           /\ RuleOutcome(ls, "checks", {"of"}, m.checks.passed, d.checks.passed, Digits)
           /\ RuleOutcome(ls, "checks", {"of"}, m.checks.total, d.checks.total,
                          LAMBDA l : Whole(l.m \div 1000))
\* a text whose first pattern (http_reqs) matches nowhere and whose second
\* (iterations) matches: iterations is set, http_reqs keeps its default
C12_Witness ==
    /\ ret.done
    /\ call.fn = "text"
    /\ call.output.t = "string"
    /\ Matching(call.output.lines, "http_reqs", DigitKinds) = <<>>
    /\ Matching(call.output.lines, "iterations", DigitKinds) # <<>>
    /\ ret.v.iterations = Whole(2)
    /\ ret.v.http_reqs = Num(0)

\* the numeric value the document has at metrics.<name>.values.<key>
HasNumber(summary, name, key) ==
    /\ summary.t = "object"
    /\ summary.metrics.t = "object"
    /\ summary.metrics.m[name].t = "object"
    /\ summary.metrics.m[name].values.t = "object"
    /\ summary.metrics.m[name].values.v[key].t = "number"
NumberAt(summary, name, key) == summary.metrics.m[name].values.v[key].n
\* got is the integer nearest to x thousandths
NearestInteger(x, got) ==
    /\ got.t = "number"
    /\ got.n % 1000 = 0
    /\ 2 * got.n - 2 * x <= 1000
    /\ 2 * x - 2 * got.n <= 1000
\* got is the text, with two decimals, of the hundredths nearest to x thousandths
TwoDecimals(x, got) ==
    \E h \in (x \div 10) .. (x \div 10) + 1 :
        /\ got = Str(NatToStr(h \div 100) \o "." \o Pad2(h % 100))
        /\ 10 * h - x <= 5
        /\ x - 10 * h <= 5

\* C13: the summary-read extractor normalises every numeric value of the
\* document: counts (http_reqs, iterations, checks passes and fails, vus_max)
\* become the nearest integer, durations a text with 2 decimals, and rates
\* rate*100 as a text with 2 decimals.
C13_Normalised ==
    (ret.done /\ call.fn = "summary") =>
        LET doc == call.summary
            m == ret.v
            IsCount(name, key, got) ==
                HasNumber(doc, name, key) => NearestInteger(NumberAt(doc, name, key), got)
            IsRate(name, got) ==
                HasNumber(doc, name, "rate") =>
                    TwoDecimals(100 * NumberAt(doc, name, "rate"), got)
        IN /\ IsCount("http_reqs", "count", m.http_reqs)
           /\ IsCount("iterations", "count", m.iterations)
           /\ IsCount("checks", "passes", m.checks.passed)
           /\ IsCount("checks", "fails", m.checks.failed)
           /\ IsCount("vus_max", "max", m.vus_max)
           /\ \A k \in 1 .. Len(DurSrc) :
                 HasNumber(doc, "http_req_duration", DurSrc[k]) =>
                     TwoDecimals(NumberAt(doc, "http_req_duration", DurSrc[k]),
                                 m.http_req_duration[DurDst[k]])
           /\ IsRate("checks", m.checks.rate)
           /\ IsRate("http_req_failed", m.http_req_failed_rate)

\* the places of the http_reqs metric lines ("http_reqs......: N r/s") of a text
RequestLines(ls) == {i \in 1 .. Len(ls) : ls[i].label = "http_reqs" /\ ls[i].kind = "count"}

\* C14: when the console text has one http_reqs metric line, with count N,
\* the snapshot of the text scan has http_reqs = N, whatever the other lines
\* of the text are.
C14_RequestCount ==
    (ret.done /\ call.fn = "text" /\ call.output.t = "string") =>
        \A i \in RequestLines(call.output.lines) :
            RequestLines(call.output.lines) = {i} =>
                ret.v.http_reqs = Whole(call.output.lines[i].n \div 1000)

\* the number of samples below x, and of samples up to x
Below(samples, x) == Cardinality({i \in 1 .. Len(samples) : samples[i] < x})
UpTo(samples, x) == Cardinality({i \in 1 .. Len(samples) : samples[i] <= x})
\* r holds the figures of the samples: smallest, largest, mean, and the
\* sample of rank floor(n * 0.95), counted from 0, in ascending order
ReducedFrom(samples, r) ==
    LET n == Len(samples)
        k == (n * 95) \div 100
        Among(x) == \E i \in 1 .. n : samples[i] = x
    IN /\ Among(r.min) /\ \A i \in 1 .. n : r.min <= samples[i]
       /\ Among(r.max) /\ \A i \in 1 .. n : samples[i] <= r.max
       /\ n * r.avg <= 1000 * SumSeq(samples)
       /\ 1000 * SumSeq(samples) < n * r.avg + n
       /\ Among(r.p95) /\ Below(samples, r.p95) <= k /\ UpTo(samples, r.p95) >= k + 1
       /\ (n = 10 => r.p95 = r.max)
\* the duration figures of a recorded snapshot are those of the samples
SnapshotFrom(samples, metrics) ==
    /\ metrics.t = "object"
    /\ \E r \in [avg : {ReduceTrend(samples).avg}, min : 1 .. MaxCount, max : 1 .. MaxCount,
                 p95 : 1 .. MaxCount] :
          /\ ReducedFrom(samples, r)
          /\ metrics.v.http_req_duration.avg \in {Num(r.avg), Str(FixedText(r.avg))}
          /\ metrics.v.http_req_duration.min \in {Whole(r.min), Str(FixedText(1000 * r.min))}
          /\ metrics.v.http_req_duration.max \in {Whole(r.max), Str(FixedText(1000 * r.max))}
          /\ metrics.v.http_req_duration.p95 \in {Whole(r.p95), Str(FixedText(1000 * r.p95))}

\* C15 (as stated): the event-stream reduction gives min, max, avg and p95 of
\* the samples, and the snapshot the runner records for a run whose
\* event-stream file holds samples has the figures of that reduction.
C15_StreamIsReduced ==
    /\ (pc = "stream" /\ ret.reduced.done) => ReducedFrom(call.e.raw, ret.reduced)
    /\ (pc = "stream" /\ ret.done /\ call.e.raw # <<>>) => SnapshotFrom(call.e.raw, ret.v)
\* C15 (amended): the event-stream reduction gives min, max, avg and p95 of
\* the samples (for 10 samples the p95 is the largest), and the runner, which
\* asks the engine for the event-stream file, never applies the reduction to
\* it: the snapshot it records is the one of the summary file alone, null when
\* there is no summary file, whatever the samples are.
C15_StreamNotRead ==
    /\ (pc = "stream" /\ ret.reduced.done) => ReducedFrom(call.e.raw, ret.reduced)
    /\ (pc = "stream" /\ ret.done) =>
          /\ ret.v = ReadSummary([call.e EXCEPT !.raw = <<>>]).v
          /\ call.e.file = "missing" => ret.v = NullMetrics
\* ten samples, not all equal, reduced, next to a run whose summary file is
\* missing
C15_Witness ==
    /\ pc = "stream"
    /\ ret.done
    /\ ret.reduced.done
    /\ Len(call.e.raw) = 10
    /\ ret.reduced.min < ret.reduced.max
    /\ ret.reduced.p95 = ret.reduced.max
    /\ call.e.file = "missing"
    /\ ret.v = NullMetrics

\* C16: in every snapshot an extractor returns, the checks counts are numbers
\* with total = passed + failed, passed >= 0 and failed >= 0.
C16_ChecksTotal ==
    (pc = "extract" /\ ret.done) =>
        LET c == ret.v.checks
        IN /\ c.total.t = "number" /\ c.passed.t = "number" /\ c.failed.t = "number"
           /\ c.total.n = c.passed.n + c.failed.n
           /\ c.passed.n >= 0
           /\ c.failed.n >= 0

\* the value of base-1024 digits (of few enough digits)
RECURSIVE ValueOf(_)
ValueOf(ds) == IF ds = <<>> THEN 0 ELSE ValueOf(SubSeq(ds, 1, Len(ds) - 1)) * 1024 + ds[Len(ds)]

\* C17: formatBytes(0) is "0 B"; for a positive whole byte count the text is
\* "<number> <unit>", the unit one of B, KB, MB, GB, the one with the index i
\* for which 1 <= bytes / 1024^i < 1024, and the number bytes / 1024^i rounded
\* to hundredths, printed without trailing zeros; 1536 gives "1.5 KB" and
\* 1048576 gives "1 MB".  (The number is compared for counts below 1024^3.)
C17_ByteFormat ==
    (pc = "bytes" /\ ret.done) =>
        LET ds == call.digits
            i == Len(ds) - 1
            rest == ValueOf(Tail(ds))
        IN /\ ds = <<0>> => ret.v = Str("0 B")
           /\ ds = <<1, 512>> => ret.v = Str("1.5 KB")
           /\ ds = <<1, 0, 0>> => ret.v = Str("1 MB")
           /\ ds # <<0>> =>
                 /\ i \in 0 .. 3
                 /\ \E h \in 100 * ds[1] .. 100 * ds[1] + 100 :
                       /\ ret.v = Str(ShortText(h) \o " " \o <<"B", "KB", "MB", "GB">>[i + 1])
                       /\ i <= 2 =>
                             LET part == h - 100 * ds[1]
                             IN /\ 200 * rest - 2 * part * Pow1024(i) <= Pow1024(i)
                                /\ 2 * part * Pow1024(i) - 200 * rest <= Pow1024(i)

\* the text, with one decimal, of the tenths nearest to passed / total * 100
RateOf(passed, total, text) ==
    \E t \in (1000 * passed) \div total .. ((1000 * passed) \div total) + 1 :
        /\ text = NatToStr(t \div 10) \o "." \o Digit[(t % 10) + 1]
        /\ 2 * (t * total - 1000 * passed) <= total
        /\ 2 * (1000 * passed - t * total) <= total
AllPassed(list) == \A k \in 1 .. Len(list) : list[k].status = "PASSED"

\* C18: the success rate shown in the console tally and in the summary card of
\* the HTML report is passed / total * 100 rounded to one decimal, and it is
\* "100.0" exactly when every result is PASSED.
C18_SuccessRate ==
    /\ \A k \in 1 .. Len(emissions) :
          emissions[k].emitter = "html" =>
              LET list == emissions[k].input
              IN /\ RateOf(Count(list, "PASSED"), Len(list), emissions[k].successRate)
                 /\ emissions[k].successRate = "100.0" <=> AllPassed(list)
    /\ \A k \in 1 .. Len(tally) :
          /\ RateOf(Count(results, "PASSED"), Len(results), tally[k].successRate)
          /\ tally[k].successRate = "100.0" <=> AllPassed(results)
\* a tally after two of three scenarios passed: the rate is rounded up
C18_Witness ==
    /\ tally # <<>>
    /\ Count(results, "PASSED") = 2
    /\ Len(results) = 3
    /\ tally[1].successRate = "66.7"
    /\ \E k \in 1 .. Len(emissions) :
          emissions[k].emitter = "html" /\ emissions[k].successRate = "66.7"

\* the sum of f over a set of places
RECURSIVE SumOver(_, _)
SumOver(S, f) == IF S = {} THEN 0 ELSE LET x == CHOOSE y \in S : TRUE
                                       IN f[x] + SumOver(S \ {x}, f)

\* C19: the overall figures of the report are taken over the results that
\* have metrics: totalRequests and totalIterations are the sums of http_reqs
\* and iterations of those results, avgResponseTime is the mean of their
\* http_req_duration.avg with their number as denominator, with 2 decimals,
\* and results without metrics (FAILED) change none of the three.
C19_OverallOverMetrics ==
    \A k \in 1 .. Len(emissions) :
        (emissions[k].emitter = "html" /\ runner = "text") =>
            LET list == emissions[k].input
                o == emissions[k].overall
                have == {i \in 1 .. Len(list) : list[i].metrics.t = "object"}
                c == Cardinality(have)
                total == SumOver(have, [i \in have |-> list[i].metrics.v.http_req_duration.avg.n])
            IN /\ o.totalRequests =
                      Num(SumOver(have, [i \in have |-> list[i].metrics.v.http_reqs.n]))
               /\ o.totalIterations =
                      Num(SumOver(have, [i \in have |-> list[i].metrics.v.iterations.n]))
               /\ c = 0 => o.avgResponseTime = Num(0)
               /\ c > 0 => \E h \in total \div (10 * c) .. (total \div (10 * c)) + 1 :
                               /\ o.avgResponseTime =
                                      Str(NatToStr(h \div 100) \o "." \o Pad2(h % 100))
                               /\ 2 * (10 * h * c - total) <= 10 * c
                               /\ 2 * (total - 10 * h * c) <= 10 * c
               /\ o = Overall(SelectSeq(list, LAMBDA t : t.status = "PASSED"))
\* a report over results of which one is FAILED and the others have metrics
\* with requests
C19_Witness ==
    /\ runner = "text"
    /\ \E k \in 1 .. Len(emissions) :
          /\ emissions[k].emitter = "html"
          /\ Count(emissions[k].input, "FAILED") = 1
          /\ emissions[k].overall.testCount = Len(emissions[k].input) - 1
          /\ emissions[k].overall.totalRequests = Whole(600)
          /\ emissions[k].overall.avgResponseTime = Str("120.50")

\* C20: the CSV emitter writes one data row per result, also for a list with
\* FAILED results: it does not fail, and the rows are as many as the results.
C20_CsvRowPerResult ==
    \A k \in 1 .. Len(emissions) :
        emissions[k].emitter = "csv" =>
            /\ ~emissions[k].threw
            /\ emissions[k].rows = Len(emissions[k].input)

\* a reader of comma-separated text: records end at "\n", fields at ",", a
\* field that starts with a double quote runs to its closing quote, and a
\* double quote inside it is written twice; anything else is not CSV
RECURSIVE ReadRecord(_, _, _, _, _)
ReadRecord(toks, i, mode, field, row) ==
    LET plain == [text |-> field, quoted |-> mode = "closed"]
        EndField == ReadRecord(toks, i + 1, "start", <<>>, Append(row, plain))
        EndRow == [ok |-> TRUE, row |-> Append(row, plain), next |-> i + 1]
        Take(m) == ReadRecord(toks, i + 1, m, Append(field, toks[i]), row)
        Bad == [ok |-> FALSE, row |-> <<>>, next |-> i]
    IN IF i > Len(toks) THEN IF mode = "quoted" THEN Bad ELSE EndRow
       ELSE CASE mode = "quoted" ->
                    IF toks[i] = Quote THEN ReadRecord(toks, i + 1, "closed", field, row)
                    ELSE Take("quoted")
              [] mode = "closed" ->
                    IF toks[i] = Quote THEN Take("quoted")
                    ELSE IF toks[i] = Comma THEN EndField
                    ELSE IF toks[i] = NewLine THEN EndRow
                    ELSE Bad
              [] OTHER ->
                    IF toks[i] = Comma THEN EndField
                    ELSE IF toks[i] = NewLine THEN EndRow
                    ELSE IF toks[i] = Quote
                    THEN IF mode = "start" THEN ReadRecord(toks, i + 1, "quoted", field, row)
                         ELSE Bad
                    ELSE Take("plain")
RECURSIVE ReadCsv(_, _, _)
ReadCsv(toks, i, rows) ==
    IF i > Len(toks) THEN [ok |-> TRUE, rows |-> rows]
    ELSE LET r == ReadRecord(toks, i, "start", <<>>, <<>>)
         IN IF r.ok THEN ReadCsv(toks, r.next, Append(rows, r.row))
            ELSE [ok |-> FALSE, rows |-> <<>>]
ParseCsv(toks) == ReadCsv(toks, 1, <<>>)

\* the column a header label stands for
ColumnOf(label) ==
    CASE label = <<"Test Name">> -> "name"
      [] label = <<"Status">> -> "status"
      [] label = <<"Duration(s)">> -> "duration"
      [] label = <<"Iterations">> -> "iterations"
      [] label = <<"HTTP Requests">> -> "requests"
      [] label = <<"Avg Response Time(ms)">> -> "avgResponseTime"
      [] label = <<"P95 Response Time(ms)">> -> "p95ResponseTime"
      [] label = <<"Success Rate(%)">> -> "successRate"
      [] label = <<"Fail Rate(%)">> -> "failRate"
      [] label = <<"Timestamp">> -> "timestamp"
      [] OTHER -> "?"
Columns == <<"name", "status", "duration", "iterations", "requests", "avgResponseTime",
             "p95ResponseTime", "successRate", "failRate", "timestamp">>
\* the ten values of a result, as texts, in the order of Columns
ValuesOfResult(test) ==
    <<test.name, <<test.status>>, <<test.duration>>,
      <<ToText(test.metrics.v.iterations)>>, <<ToText(test.metrics.v.http_reqs)>>,
      <<ToText(test.metrics.v.http_req_duration.avg)>>,
      <<ToText(test.metrics.v.http_req_duration.p95)>>,
      <<ToText(test.metrics.v.checks.rate)>>,
      <<ToText(test.metrics.v.http_req_failed_rate)>>, <<test.timestamp>>>>

\* C21: the CSV starts with the header row of the ten columns name, status,
\* duration, iterations, requests, avgResponseTime, p95ResponseTime,
\* successRate, failRate, timestamp; every data row has its ten values in
\* that order, and the fields of text (name, status, timestamp) are quoted.
C21_CsvLayout ==
    (pc = "csv-alone" /\ ret.done) =>
        /\ ~ret.threw
        /\ LET p == ParseCsv(ret.text)
           IN /\ p.ok
              /\ Len(p.rows) >= 1
              /\ Len(p.rows[1]) = Len(Columns)
              /\ \A c \in 1 .. Len(Columns) : ColumnOf(p.rows[1][c].text) = Columns[c]
              /\ \A k \in 2 .. Len(p.rows) :
                    /\ Len(p.rows[k]) = Len(Columns)
                    /\ k - 1 <= Len(results)
                    /\ \A c \in 1 .. Len(Columns) \ {1} :
                          p.rows[k][c].text = ValuesOfResult(results[k - 1])[c]
                    /\ \A c \in {1, 2, 10} : p.rows[k][c].quoted

\* C22: reading the CSV back gives one row per result and, in each row, the
\* name, status, duration, iterations, requests, avg and p95 response time,
\* success rate, fail rate and timestamp of the result, also for a name with
\* a comma or a double quote.
C22_CsvRoundTrip ==
    (pc = "csv-alone" /\ ret.done) =>
        /\ ~ret.threw
        /\ LET p == ParseCsv(ret.text)
           IN /\ p.ok
              /\ Len(p.rows) = Len(results) + 1
              /\ \A k \in 1 .. Len(results) :
                    /\ Len(p.rows[k + 1]) = Len(Columns)
                    /\ \A c \in 1 .. Len(Columns) :
                          p.rows[k + 1][c].text = ValuesOfResult(results[k])[c]


(***************************************************************************)
(* Properties of the HTML document (specifications SpecHtml and Spec).     *)
(***************************************************************************)
\* C23: two invocations of the HTML emitter on the same result list and the
\* same timestamp label write the same document.
C23_HtmlDeterministic ==
    (pc = "html-alone" /\ Len(emissions) = 2) =>
        (emissions[1].input = emissions[2].input => emissions[1] = emissions[2])


\* C24: a call of generateHTMLReport or exportToCSV leaves the result list as it
\* was (same length, same order, same field values) and starts no engine
\* process: no invocation is counted, none is in flight, none ends.
C24_EmittersReadOnly ==
    [][Len(emissions') > Len(emissions) =>
          /\ results' = results
          /\ invocations' = invocations
          /\ inFlight' = inFlight
          /\ engine' = engine]_vars
C24_Witness ==
    /\ runner = "text"
    /\ pc = "tally"
    /\ Len(emissions) = 2
    /\ emissions[1].emitter = "html" /\ emissions[2].emitter = "csv"
    /\ Len(results) = N
    /\ emissions[2].input = results

\* C25: the HTML document has one block per result, in result order; it has as
\* many FAILED badges as there are FAILED results; the block of a result with
\* an error has a panel with that error text, and the block of a result
\* without an error has no panel.
FailedBadges(blocks) == Cardinality({k \in 1 .. Len(blocks) : blocks[k].badge = "FAILED"})
C25_BlockPerResult ==
    \A e \in 1 .. Len(emissions) :
        emissions[e].emitter = "html" =>
            LET list == emissions[e].input
                blocks == emissions[e].blocks
            IN /\ ~emissions[e].threw
               /\ Len(blocks) = Len(list)
               /\ \A k \in 1 .. Len(list) :
                     /\ blocks[k].title = list[k].name
                     /\ blocks[k].badge = list[k].status
                     /\ list[k].error # Undef => blocks[k].panel = list[k].error
                     /\ list[k].error = Undef => blocks[k].panel = Undef
               /\ FailedBadges(blocks) = Count(list, "FAILED")
C25_Witness ==
    \E e \in 1 .. Len(emissions) :
        /\ emissions[e].emitter = "html"
        /\ Len(emissions[e].blocks) = N
        /\ FailedBadges(emissions[e].blocks) = 1
        /\ emissions[e].blocks[1].badge = "PASSED"
        /\ emissions[e].blocks[2].panel = Str("Command failed: k6 run")

\* C26, as stated: the block of a result has the metric grid exactly when the
\* result is PASSED.
C26_GridIffPassed ==
    \A e \in 1 .. Len(emissions) :
        emissions[e].emitter = "html" =>
            \A k \in 1 .. Len(emissions[e].blocks) :
                emissions[e].blocks[k].grid <=> emissions[e].input[k].status = "PASSED"
\* C26, amended: no FAILED result has a grid; a PASSED result has the grid of its
\* own metrics, except a PASSED result of run-all-tests.js whose metrics are
\* null, which has the "Metrics data not available" note and no grid.
C26_GridIffPassedWithMetrics ==
    \A e \in 1 .. Len(emissions) :
        emissions[e].emitter = "html" =>
            /\ ~emissions[e].threw
            /\ Len(emissions[e].blocks) = Len(emissions[e].input)
            /\ \A k \in 1 .. Len(emissions[e].blocks) :
                  LET test == emissions[e].input[k]
                      block == emissions[e].blocks[k]
                      nulled == runner = "summary" /\ test.metrics = NullMetrics
                  IN /\ block.grid <=> (test.status = "PASSED" /\ ~nulled)
                     /\ block.grid => block.cells = test.metrics.v
                     /\ block.note <=> (test.status = "PASSED" /\ nulled)
C26_Witness ==
    \E e \in 1 .. Len(emissions) :
        /\ emissions[e].emitter = "html"
        /\ runner = "summary"
        /\ Len(emissions[e].blocks) = N
        /\ emissions[e].input[1].status = "PASSED"
        /\ emissions[e].input[1].metrics = NullMetrics
        /\ emissions[e].blocks[1].note /\ ~emissions[e].blocks[1].grid
        /\ emissions[e].blocks[2].grid
        /\ emissions[e].blocks[2].cells.http_reqs = Whole(120)
        /\ emissions[e].blocks[3].badge = "FAILED" /\ ~emissions[e].blocks[3].grid

\* C27: every step of the run leaves the result list as it is or appends one
\* entry at its end; the entries already in the list keep their position and
\* their field values through later scenarios, the emitters and the tally.
C27_AppendOnly ==
    [][\/ results' = results
       \/ /\ Len(results') = Len(results) + 1
          /\ SubSeq(results', 1, Len(results)) = results]_vars
C27_Witness ==
    /\ pc = "done"
    /\ Len(results) = N
    /\ Len(tally) = 1
    /\ Len(emissions) >= 1
    /\ results[1].status = "FAILED"
    /\ results[N].status = "PASSED"

(***************************************************************************)
(* Properties of the text scan on texts with several metric lines          *)
(* (specification SpecExtract).                                            *)
(***************************************************************************)
\* the places of the http_req_duration and of the iterations metric lines
DurationLines(ls) ==
    {i \in 1 .. Len(ls) : ls[i].label = "http_req_duration" /\ ls[i].kind = "trend"}
IterationLines(ls) ==
    {i \in 1 .. Len(ls) : ls[i].label = "iterations" /\ ls[i].kind = "count"}

\* C28: the fields min, max, med and p95 of the text scan are those of the
\* http_req_duration line, whatever other lines with min=, max=, med= or
\* p(95)= values stand before or after it, and stay 0 without such a line; the
\* iterations field is that of the iterations metric line, and stays 0 when
\* the text has no such line.
C28_DurationLineOnly ==
    (ret.done /\ call.fn = "text" /\ call.output.t = "string") =>
        LET ls == call.output.lines
            d == ret.v.http_req_duration
        IN /\ \A i \in DurationLines(ls) :
                 DurationLines(ls) = {i} =>
                     /\ d.min = Num(ls[i].min) /\ d.max = Num(ls[i].max)
                     /\ d.med = Num(ls[i].med) /\ d.p95 = Num(ls[i].p95)
           /\ DurationLines(ls) = {} =>
                 d.min.n = 0 /\ d.max.n = 0 /\ d.med.n = 0 /\ d.p95.n = 0
           /\ \A i \in IterationLines(ls) :
                 IterationLines(ls) = {i} => ret.v.iterations.n = ls[i].n
           /\ IterationLines(ls) = {} => ret.v.iterations.n = 0

(***************************************************************************)
(* Properties of formatBytes on large counts (specification SpecBytes).    *)
(***************************************************************************)
\* C29: for every positive whole byte count the text of formatBytes is
\* "<number> <unit>" with the unit one of B, KB, MB, GB and the number, in
\* hundredths, at least 1 and below 1024.  (The number of a count with leading
\* base-1024 digit d lies between d and d + 1.)
C29_UnitAndRange ==
    (pc = "bytes" /\ ret.done /\ call.digits # <<0>>) =>
        \E i \in 1 .. 4 :
            \E h \in 100 * call.digits[1] .. 100 * call.digits[1] + 100 :
                /\ 100 <= h /\ h < 102400
                /\ ret.v = Str(ShortText(h) \o " " \o <<"B", "KB", "MB", "GB">>[i])

(***************************************************************************)
(* Properties of the overall figures (specification SpecHtml).             *)
(***************************************************************************)
WithMetrics(list) == {k \in 1 .. Len(list) : list[k].metrics.t = "object"}

\* C30: in the report of the text-scan runner, when no result has metrics the
\* average response time, the total of requests and the total of iterations
\* are the number 0; and the overall figures of two reports made of the same
\* result list are the same.
C30_DegenerateOverall ==
    (pc = "html-alone" /\ runner = "text") =>
        /\ \A e \in 1 .. Len(emissions) :
              WithMetrics(emissions[e].input) = {} =>
                  /\ emissions[e].overall.avgResponseTime = Num(0)
                  /\ emissions[e].overall.totalRequests = Num(0)
                  /\ emissions[e].overall.totalIterations = Num(0)
        /\ Len(emissions) = 2 =>
              /\ emissions[1].input = emissions[2].input
              /\ emissions[1].overall = emissions[2].overall
C30_Witness ==
    /\ pc = "html-alone"
    /\ runner = "text"
    /\ Len(emissions) = 2
    /\ Len(results) = 2
    /\ \A k \in 1 .. Len(results) : results[k].status = "FAILED"
    /\ emissions[2].overall.testCount = 0
    /\ emissions[2].overall.avgResponseTime = Num(0)

====
